---- MODULE Spec2Model ----
(***************************************************************************)
(* A model of package enc (esote/enc): Encrypt and Decrypt of src/enc.go.  *)
(*                                                                         *)
(* Byte slices are sequences of 0..255.  A Go slice that aliases the       *)
(* caller's memory is modelled as an offset into the caller's buffer, so   *)
(* that a write through the slice is a write to the caller's bytes.        *)
(*                                                                         *)
(* The library calls (encoding/gob, compress/gzip, argon2, aes, cipher,    *)
(* sha512, encoding/binary) are modelled by small operators that keep the  *)
(* structure the calls have (framing, headers, sequential field stores,    *)
(* in-place output, tag comparison) on short byte strings.                 *)
(***************************************************************************)
EXTENDS Integers, Sequences, FiniteSets, TLC

(* ------------------------- bounds of the model ------------------------- *)

\* Passwords tried: PasswordOf(1) .. PasswordOf(NumPasswords).
NumPasswords == 2
\* Salts the random source may hand out: SaltOf(1) .. SaltOf(NumSalts).
NumSalts == 2
\* Nonces the random source may hand out: NonceOf(1) .. NonceOf(NumNonces).
NumNonces == 2
\* Each field of a value ranges over 0 .. MaxField (0 is the zero value).
MaxField == 1
\* Calls the caller makes in one behaviour of Spec.
MaxCalls == 3
\* Decrypt calls on the damaged blob in one behaviour of SpecTamper.
MaxTamperCalls == 1
\* Calls the goroutines of SpecPar make in one behaviour.
MaxParCalls == 2

(* -------------------------- program constants -------------------------- *)

saltSize == 64
Version == 1
\* gcm.NonceSize() of a cipher.NewGCM AEAD, and the size of its tag.
NonceSize == 12
TagSize == 16
\* Line{C, M} of the round-trip test: a value has two fields.
NumFields == 2

(* ------------------------------ byte helpers --------------------------- *)

RECURSIVE XorBits(_, _, _)
XorBits(a, b, n) ==
    IF n = 0 THEN 0
    ELSE ((a + b) % 2) + 2 * XorBits(a \div 2, b \div 2, n - 1)

Xor(a, b) == XorBits(a, b, 8)

Pow2(n) == CASE n = 0 -> 1 [] n = 1 -> 2 [] n = 2 -> 4 [] n = 3 -> 8
             [] n = 4 -> 16 [] n = 5 -> 32 [] n = 6 -> 64 [] OTHER -> 128

Take(s, n) == SubSeq(s, 1, n)
Drop(s, n) == SubSeq(s, n + 1, Len(s))
Zeros(n) == [i \in 1..n |-> 0]

\* Sum of i * s[i] over lo..hi, the position-weighted checksum the toy
\* primitives share (split in halves to keep the recursion shallow).
RECURSIVE WSumRange(_, _, _)
WSumRange(s, lo, hi) ==
    IF lo > hi THEN 0
    ELSE IF lo = hi THEN (lo * s[lo]) % 65521
    ELSE (WSumRange(s, lo, (lo + hi) \div 2)
          + WSumRange(s, ((lo + hi) \div 2) + 1, hi)) % 65521

WSum(s) == WSumRange(s, 1, Len(s))

(* ----------------------- encoding/binary (LittleEndian) ---------------- *)

\* A uint64 is kept as four 16-bit limbs, least significant first.
U64(n) == << n % 65536, n \div 65536, 0, 0 >>

\* binary.LittleEndian.Uint64(b)
LittleEndianUint64(b) ==
    << b[1] + 256 * b[2], b[3] + 256 * b[4], b[5] + 256 * b[6], b[7] + 256 * b[8] >>

\* binary.LittleEndian.PutUint64(ver, v)
LittleEndianPutUint64(v) ==
    [i \in 1..8 |-> IF i % 2 = 1 THEN v[(i + 1) \div 2] % 256
                                 ELSE v[i \div 2] \div 256]

(* ------------------------------ encoding/gob --------------------------- *)

\* A value: enc says whether gob can encode its type, f holds its fields.
Fields == [1..NumFields -> 0..MaxField]
ZeroValue == [i \in 1..NumFields |-> 0]

\* The fields of a struct in order: a field holding the zero value is omitted;
\* each sent field is (field number delta, value); a zero delta ends the struct.
RECURSIVE GobFields(_, _, _)
GobFields(f, i, last) ==
    IF i > NumFields THEN << 0 >>
    ELSE IF f[i] = 0 THEN GobFields(f, i + 1, last)
    ELSE << i - last, f[i] >> \o GobFields(f, i + 1, i)

\* gob.NewEncoder(&encoded).Encode(e): one length-prefixed message.
GobEncode(e) ==
    IF ~e.enc THEN [err |-> "ErrGobType", bytes |-> << >>]
    ELSE LET body == GobFields(e.f, 1, 0)
         IN  [err |-> "nil", bytes |-> << Len(body) >> \o body]

\* The decoder stores each field into the destination as it reads it.
RECURSIVE GobDecodeFields(_, _, _, _)
GobDecodeFields(body, pos, field, d) ==
    IF pos > Len(body) THEN [err |-> "ErrGob", d |-> d]
    ELSE IF body[pos] = 0
         THEN [err |-> IF pos = Len(body) THEN "nil" ELSE "ErrGob", d |-> d]
    ELSE IF field + body[pos] > NumFields \/ pos + 1 > Len(body)
         THEN [err |-> "ErrGob", d |-> d]
    ELSE GobDecodeFields(body, pos + 2, field + body[pos],
                         [d EXCEPT ![field + body[pos]] = body[pos + 1]])

\* gob.NewDecoder(r).Decode(d) on the bytes the reader delivers; rerr is the
\* error the reader reports once those bytes are used up.
GobDecode(stream, rerr, d) ==
    IF stream = << >> THEN [err |-> rerr, d |-> d]
    ELSE IF Len(stream) - 1 < stream[1] THEN [err |-> "ErrUnexpectedEOF", d |-> d]
    ELSE GobDecodeFields(SubSeq(stream, 2, stream[1] + 1), 1, 0, d)

(* ----------------------------- compress/gzip --------------------------- *)

Crc(data) == (WSum(data) + Len(data)) % 256

\* A deflate stream of stored blocks: (1 = final | 0 = more, length, bytes).
DeflateStored(data) == << 1, Len(data) >> \o data

\* gzip.NewWriter + Write + Close: header, deflate stream, trailer.
GzipCompress(data) ==
    << 31, 139, 8 >> \o DeflateStored(data) \o << Crc(data), Len(data) % 256 >>

\* gzip.NewReader: reads and checks the header.
GzipNewReader(p) ==
    IF Len(p) < 3 \/ Take(p, 3) # << 31, 139, 8 >>
    THEN [err |-> "ErrGzipHeader", rest |-> << >>]
    ELSE [err |-> "nil", rest |-> Drop(p, 3)]

\* The flate decompressor run over the stream: the bytes it delivers and the
\* error it ends with ("EOF" after a final block).
RECURSIVE Inflate(_, _)
Inflate(s, acc) ==
    IF Len(s) < 2 THEN [data |-> acc, ferr |-> "ErrUnexpectedEOF", rest |-> << >>]
    ELSE IF s[1] \notin {0, 1} THEN [data |-> acc, ferr |-> "ErrCorrupt", rest |-> << >>]
    ELSE IF Len(s) < 2 + s[2]
         THEN [data |-> acc \o Drop(s, 2), ferr |-> "ErrUnexpectedEOF", rest |-> << >>]
    ELSE IF s[1] = 1
         THEN [data |-> acc \o SubSeq(s, 3, 2 + s[2]), ferr |-> "EOF",
               rest |-> Drop(s, 2 + s[2])]
    ELSE Inflate(Drop(s, 2 + s[2]), acc \o SubSeq(s, 3, 2 + s[2]))

\* gzip.Reader.Read: the decompressed bytes and the error that follows them;
\* at the end of the deflate stream the trailer is verified.
GzipRead(rest) ==
    LET r == Inflate(rest, << >>)
    IN  [data |-> r.data,
         ferr |-> r.ferr,
         zerr |-> IF r.ferr # "EOF" THEN r.ferr
                  ELSE IF Len(r.rest) < 2 THEN "ErrUnexpectedEOF"
                  ELSE IF Take(r.rest, 2) # << Crc(r.data), Len(r.data) % 256 >>
                       THEN "ErrChecksum"
                  ELSE "EOF"]

\* gzip.Reader.Close: the decompressor's error, unless it ended with EOF.
GzipClose(ferr) == IF ferr = "EOF" THEN "nil" ELSE ferr

(* -------------------------------- argon2 ------------------------------- *)

RECURSIVE PolyFrom(_, _)
PolyFrom(s, i) ==
    IF i > Len(s) THEN 7 ELSE (s[i] + 31 * PolyFrom(s, i + 1)) % 65521

\* argon2.Key(password, salt, time, memory, threads, keyLen)
Argon2Key(password, salt, time, memory, threads, keyLen) ==
    LET h == (7919 * PolyFrom(password, 1) + WSum(salt)
              + time + memory + threads) % 65521
    IN  [i \in 1..keyLen |->
            IF i = 1 THEN h % 256
            ELSE IF i = 2 THEN h \div 256
            ELSE ((h % 256) + i * (h \div 256)) % 256]

(* ------------------------- crypto/aes, crypto/cipher ------------------- *)

\* aes.NewCipher(key): only 16, 24 and 32 byte keys make a cipher.
AesNewCipher(key) ==
    IF Len(key) \in {16, 24, 32} THEN [err |-> "nil", key |-> key]
    ELSE [err |-> "ErrKeySize", key |-> << >>]

\* cipher.NewGCM(c)
NewGCM(c) == [err |-> "nil", key |-> c.key, nonceSize |-> NonceSize]

KeyNum(key) == key[1] + 256 * key[2]

\* Counter mode: byte i of the text is xored with byte i of the key stream.
GcmCounterCrypt(key, nonce, text) ==
    LET base == KeyNum(key) + WSum(nonce)
    IN  [i \in 1..Len(text) |-> Xor(text[i], (base + i) % 256)]

\* The authentication tag over the nonce and the ciphertext, under the key.
GcmAuth(key, nonce, body) ==
    LET t == (KeyNum(key) + 131 * WSum(nonce) + WSum(body) + Len(body)) % 65521
    IN  [i \in 1..TagSize |->
            IF i = 1 THEN t % 256
            ELSE IF i = 2 THEN t \div 256
            ELSE (t + i) % 256]

\* gcm.Seal(nil, nonce, plaintext, nil): ciphertext followed by its tag.
GcmSeal(gcm, nonce, plaintext) ==
    LET body == GcmCounterCrypt(gcm.key, nonce, plaintext)
    IN  body \o GcmAuth(gcm.key, nonce, body)

\* gcm.Open(dst, nonce, ciphertext, nil): out is what is written to dst, which
\* is cleared when the tag does not match; nothing is written when the
\* ciphertext is shorter than a tag.
GcmOpen(gcm, nonce, ciphertext) ==
    IF Len(ciphertext) < TagSize
    THEN [err |-> "ErrOpen", out |-> << >>]
    ELSE LET body == Take(ciphertext, Len(ciphertext) - TagSize)
             tag  == Drop(ciphertext, Len(ciphertext) - TagSize)
         IN  IF tag # GcmAuth(gcm.key, nonce, body)
             THEN [err |-> "ErrOpen", out |-> Zeros(Len(body))]
             ELSE [err |-> "nil", out |-> GcmCounterCrypt(gcm.key, nonce, body)]

(* ------------------------------ crypto/sha512 -------------------------- *)

\* sha.Sum(nil) after the bytes of data were written to sha: 64 bytes.
Sha512Sum(data) ==
    LET w == WSum(data)
        n == Len(data)
    IN  [k \in 1..64 |-> (w * k + n + (w \div 256)) % 256]

(* ------------------------------- inputs -------------------------------- *)

PasswordOf(i) == << 116, 114, 101, 106 + i >>
Passwords == { PasswordOf(i) : i \in 1..NumPasswords }

SaltOf(i) == [j \in 1..saltSize |-> (37 * i * j + 11 * i) % 256]
Salts == { SaltOf(i) : i \in 1..NumSalts }

NonceOf(i) == [j \in 1..NonceSize |-> (53 * i + 7 * j) % 256]
Nonces == { NonceOf(i) : i \in 1..NumNonces }

\* The values handed to Encrypt: every struct over the fields, and one value
\* of a type gob cannot encode.
Values == { [enc |-> TRUE, f |-> f] : f \in Fields }
            \cup { [enc |-> FALSE, f |-> ZeroValue] }

Procs == {1, 2}

(* -------------------------------- state -------------------------------- *)

VARIABLES
    blob,    \* the caller's byte slice: what Encrypt returned, what Decrypt is given
    out,     \* out[p]: the value d points to in the calls of p
    fr,      \* fr[p]: the frame of p's current (or last) call
    enc,     \* history: the Encrypt call whose output the caller stored in blob
    tamper,  \* history: what the caller did to blob since it stored it
    ncalls   \* calls started so far

vars == << blob, out, fr, enc, tamper, ncalls >>

\* A call frame; a field not used by a call keeps the value below.
NoFrame ==
    [op |-> "none", pc |-> "idle", password |-> << >>, e |-> [enc |-> TRUE, f |-> ZeroValue],
     off |-> 0, nonceOff |-> 0, ptLen |-> 0, ferr |-> "nil",
     salt |-> << >>, nonce |-> << >>, gcm |-> [err |-> "nil", key |-> << >>, nonceSize |-> 0],
     encoded |-> << >>, compressed |-> << >>, buf |-> << >>, sha |-> << >>,
     data |-> << >>, hash |-> << >>, err |-> "nil", ops |-> << >>,
     data0 |-> << >>, out0 |-> ZeroValue,
     from |-> [kind |-> "other", password |-> << >>, f |-> ZeroValue, bit |-> 0]]

NoEnc == [valid |-> FALSE, password |-> << >>, e |-> [enc |-> TRUE, f |-> ZeroValue],
          salt |-> << >>, nonce |-> << >>, data |-> << >>]

NoTamper == [kind |-> "none", bit |-> 0]

\* s with bit k flipped (bit 0 is the lowest bit of the first byte).
FlipBit(s, k) == [s EXCEPT ![(k \div 8) + 1] = Xor(@, Pow2(k % 8))]

(* ------------------------------- derive -------------------------------- *)

\* Mutant of derive: the password does not enter the key.
deriveSaltOnly(password, salt) == Argon2Key(<< >>, salt, 3, 32 * 1024, 4, 32)

\* func derive(password, salt []byte) []byte
derive(password, salt) == Argon2Key(password, salt, 3, 32 * 1024, 4, 32)

(* ------------------------------- Decrypt ------------------------------- *)

\* return err: the frame at its end.
Return(f, err) == [f EXCEPT !.pc = "done", !.err = err]

\* Lines 45-55: the length check and the version switch.
DecryptVersion(f, mem, d) ==
    LET data == Drop(mem, f.off)
    IN  IF Len(data) < 8
        THEN [f |-> Return(f, "ErrNoVersion"), mem |-> mem, d |-> d]
        ELSE IF LittleEndianUint64(Take(data, 8)) # U64(1)
        THEN [f |-> Return(f, "ErrVersionInvalid"), mem |-> mem, d |-> d]
        ELSE [f |-> [f EXCEPT !.pc = "salt", !.off = @ + 8], mem |-> mem, d |-> d]

\* Mutant of DecryptSalt: the length check is off by one.
DecryptSaltOffByOne(f, mem, d) ==
    LET data == Drop(mem, f.off)
        gcm  == NewGCM(AesNewCipher(derive(f.password, Take(data, saltSize))))
    IN  IF Len(data) <= saltSize
        THEN [f |-> Return(f, "ErrNoSalt"), mem |-> mem, d |-> d]
        ELSE [f |-> [f EXCEPT !.pc = "nonce", !.off = @ + saltSize, !.gcm = gcm,
                              !.ops = @ \o << "derive", "NewCipher", "NewGCM" >>],
              mem |-> mem, d |-> d]

\* Mutant of DecryptSalt: the key is derived before the length is checked.
DecryptSaltDeriveFirst(f, mem, d) ==
    LET data == Drop(mem, f.off)
        salt == Take(data, IF Len(data) < saltSize THEN Len(data) ELSE saltSize)
        gcm  == NewGCM(AesNewCipher(derive(f.password, salt)))
        g    == [f EXCEPT !.ops = @ \o << "derive", "NewCipher", "NewGCM" >>]
    IN  IF Len(data) < saltSize
        THEN [f |-> Return(g, "ErrNoSalt"), mem |-> mem, d |-> d]
        ELSE [f |-> [g EXCEPT !.pc = "nonce", !.off = @ + saltSize, !.gcm = gcm],
              mem |-> mem, d |-> d]

\* Lines 57-70: the salt check, the key derivation and the cipher.
DecryptSalt(f, mem, d) ==
    LET data == Drop(mem, f.off)
        salt == Take(data, saltSize)
        c    == AesNewCipher(derive(f.password, salt))
        gcm  == NewGCM(c)
    IN  IF Len(data) < saltSize
        THEN [f |-> Return(f, "ErrNoSalt"), mem |-> mem, d |-> d]
        ELSE IF c.err # "nil"
        THEN [f |-> Return([f EXCEPT !.ops = @ \o << "derive", "NewCipher" >>], c.err),
              mem |-> mem, d |-> d]
        ELSE IF gcm.err # "nil"
        THEN [f |-> Return([f EXCEPT !.ops = @ \o << "derive", "NewCipher", "NewGCM" >>],
                           gcm.err),
              mem |-> mem, d |-> d]
        ELSE [f |-> [f EXCEPT !.pc = "nonce", !.off = @ + saltSize, !.gcm = gcm,
                              !.ops = @ \o << "derive", "NewCipher", "NewGCM" >>],
              mem |-> mem, d |-> d]

\* Mutant of DecryptNonce: data is not resliced past the nonce.
DecryptNonceNoAdvance(f, mem, d) ==
    LET data == Drop(mem, f.off)
    IN  IF Len(data) < f.gcm.nonceSize
        THEN [f |-> Return(f, "ErrNoNonce"), mem |-> mem, d |-> d]
        ELSE [f |-> [f EXCEPT !.pc = "open", !.nonceOff = f.off], mem |-> mem, d |-> d]

\* Lines 72-77: the nonce check.
DecryptNonce(f, mem, d) ==
    LET data == Drop(mem, f.off)
    IN  IF Len(data) < f.gcm.nonceSize
        THEN [f |-> Return(f, "ErrNoNonce"), mem |-> mem, d |-> d]
        ELSE [f |-> [f EXCEPT !.pc = "open", !.nonceOff = f.off,
                              !.off = @ + f.gcm.nonceSize],
              mem |-> mem, d |-> d]

\* Mutant of DecryptOpen: the error of gcm.Open is not checked.
DecryptOpenUnchecked(f, mem, d) ==
    LET nonce == SubSeq(mem, f.nonceOff + 1, f.nonceOff + f.gcm.nonceSize)
        data  == Drop(mem, f.off)
        r     == GcmOpen(f.gcm, nonce, data)
        mem2  == [i \in 1..Len(mem) |->
                     IF i > f.off /\ i <= f.off + Len(r.out) THEN r.out[i - f.off]
                     ELSE mem[i]]
    IN  [f |-> [f EXCEPT !.ops = @ \o << "Open" >>, !.pc = "gzip", !.ptLen = Len(r.out)],
         mem |-> mem2, d |-> d]

\* Lines 78-81: gcm.Open(data[:0], nonce, data, nil) writes its output over
\* the ciphertext, which is the caller's memory.
DecryptOpen(f, mem, d) ==
    LET nonce == SubSeq(mem, f.nonceOff + 1, f.nonceOff + f.gcm.nonceSize)
        data  == Drop(mem, f.off)
        r     == GcmOpen(f.gcm, nonce, data)
        mem2  == [i \in 1..Len(mem) |->
                     IF i > f.off /\ i <= f.off + Len(r.out) THEN r.out[i - f.off]
                     ELSE mem[i]]
        g     == [f EXCEPT !.ops = @ \o << "Open" >>]
    IN  IF r.err # "nil"
        THEN [f |-> Return(g, r.err), mem |-> mem2, d |-> d]
        ELSE [f |-> [g EXCEPT !.pc = "gzip", !.ptLen = Len(r.out)], mem |-> mem2, d |-> d]

\* plaintext: the slice gcm.Open returned, read where it lies.
Plaintext(f, mem) == SubSeq(mem, f.off + 1, f.off + f.ptLen)

\* Lines 83-86: gzip.NewReader reads the header.
DecryptGzip(f, mem, d) ==
    LET r == GzipNewReader(Plaintext(f, mem))
        g == [f EXCEPT !.ops = @ \o << "gzip.NewReader" >>]
    IN  IF r.err # "nil"
        THEN [f |-> Return(g, r.err), mem |-> mem, d |-> d]
        ELSE [f |-> [g EXCEPT !.pc = "gob"], mem |-> mem, d |-> d]

\* Lines 88-91: gob decodes into d from the gzip reader.
DecryptGob(f, mem, d) ==
    LET rd == GzipRead(Drop(Plaintext(f, mem), 3))
        r  == GobDecode(rd.data, rd.zerr, d)
        g  == [f EXCEPT !.ops = @ \o << "gob.Decode" >>, !.ferr = rd.ferr]
    IN  IF r.err # "nil"
        THEN [f |-> Return([g EXCEPT !.ops = @ \o << "Close" >>], r.err),
              mem |-> mem, d |-> r.d]
        ELSE [f |-> [g EXCEPT !.pc = "close"], mem |-> mem, d |-> r.d]

\* Line 93: return r.Close()
DecryptClose(f, mem, d) ==
    [f |-> Return([f EXCEPT !.ops = @ \o << "Close" >>], GzipClose(f.ferr)),
     mem |-> mem, d |-> d]

\* One step of func Decrypt(data, password []byte, d interface{}) error
DecryptStep(f, mem, d) ==
    CASE f.pc = "version" -> DecryptVersion(f, mem, d)
      [] f.pc = "salt"    -> DecryptSalt(f, mem, d)
      [] f.pc = "nonce"   -> DecryptNonce(f, mem, d)
      [] f.pc = "open"    -> DecryptOpen(f, mem, d)
      [] f.pc = "gzip"    -> DecryptGzip(f, mem, d)
      [] f.pc = "gob"     -> DecryptGob(f, mem, d)
      [] f.pc = "close"   -> DecryptClose(f, mem, d)
      [] OTHER            -> [f |-> f, mem |-> mem, d |-> d]

\* The frame of a call Decrypt(data, password, d) at its first line.
DecryptFrame(password, mem, d, from) ==
    [NoFrame EXCEPT !.op = "Decrypt", !.pc = "version", !.password = password,
                    !.data0 = mem, !.out0 = d, !.from = from]

\* A call of Decrypt run alone from its first line to its return.
RECURSIVE DecryptRun(_)
DecryptRun(s) ==
    IF s.f.pc = "done" THEN s ELSE DecryptRun(DecryptStep(s.f, s.mem, s.d))

(* ------------------------------- Encrypt ------------------------------- *)

\* A bare return with err set: data and hash keep their zero value.
ReturnErr(f, err) == [f EXCEPT !.pc = "done", !.err = err, !.data = << >>, !.hash = << >>]

\* Mutant of MultiWrite: p goes to buf only.
MultiWriteBufOnly(f, p) == [f EXCEPT !.buf = @ \o p]

\* mw.Write(p) of io.MultiWriter(&buf, sha): p goes to buf, then to sha.
MultiWrite(f, p) == [f EXCEPT !.buf = @ \o p, !.sha = @ \o p]

\* Lines 99-103: gob-encode e.
EncryptGob(f) ==
    LET r == GobEncode(f.e)
    IN  IF r.err # "nil" THEN ReturnErr(f, r.err)
        ELSE [f EXCEPT !.pc = "gzip", !.encoded = r.bytes]

\* Lines 105-114: gzip the encoding (writes to a bytes.Buffer do not fail).
EncryptGzip(f) == [f EXCEPT !.pc = "salt", !.compressed = GzipCompress(f.encoded)]

\* Lines 116-119: rand.Read(salt); rnd is what the random source does.
EncryptSalt(f, rnd) ==
    IF ~rnd.ok THEN ReturnErr(f, "ErrRand")
    ELSE [f EXCEPT !.pc = "cipher", !.salt = rnd.bytes]

\* Lines 121-129: derive the key and make the AEAD.
EncryptCipher(f) ==
    LET c   == AesNewCipher(derive(f.password, f.salt))
        gcm == NewGCM(c)
    IN  IF c.err # "nil" THEN ReturnErr(f, c.err)
        ELSE IF gcm.err # "nil" THEN ReturnErr(f, gcm.err)
        ELSE [f EXCEPT !.pc = "nonce", !.gcm = gcm]

\* Lines 131-134: rand.Read(nonce).
EncryptNonce(f, rnd) ==
    IF ~rnd.ok THEN ReturnErr(f, "ErrRand")
    ELSE [f EXCEPT !.pc = "ver", !.nonce = rnd.bytes]

\* Lines 136-145: the buffer, the hash, and the version written to both.
EncryptWriteVersion(f) ==
    [MultiWrite([f EXCEPT !.buf = << >>, !.sha = << >>],
                LittleEndianPutUint64(U64(Version)))
        EXCEPT !.pc = "wsalt"]

\* Mutant of EncryptWriteSalt: the nonce is written in the place of the salt.
EncryptWriteSaltWrong(f) == [MultiWrite(f, f.nonce) EXCEPT !.pc = "wnonce"]

\* Lines 147-149.
EncryptWriteSalt(f) == [MultiWrite(f, f.salt) EXCEPT !.pc = "wnonce"]

\* Lines 151-153.
EncryptWriteNonce(f) == [MultiWrite(f, f.nonce) EXCEPT !.pc = "seal"]

\* Lines 155-157: the sealed payload.
EncryptWriteSeal(f) ==
    [MultiWrite(f, GcmSeal(f.gcm, f.nonce, f.compressed)) EXCEPT !.pc = "ret"]

\* Line 159: return buf.Bytes(), sha.Sum(nil), nil
EncryptReturn(f) ==
    [f EXCEPT !.pc = "done", !.err = "nil", !.data = f.buf, !.hash = Sha512Sum(f.sha)]

\* One step of func Encrypt(password []byte, e interface{}) (data, hash []byte, err error)
EncryptStep(f, rnd) ==
    CASE f.pc = "gob"    -> EncryptGob(f)
      [] f.pc = "gzip"   -> EncryptGzip(f)
      [] f.pc = "salt"   -> EncryptSalt(f, rnd)
      [] f.pc = "cipher" -> EncryptCipher(f)
      [] f.pc = "nonce"  -> EncryptNonce(f, rnd)
      [] f.pc = "ver"    -> EncryptWriteVersion(f)
      [] f.pc = "wsalt"  -> EncryptWriteSalt(f)
      [] f.pc = "wnonce" -> EncryptWriteNonce(f)
      [] f.pc = "seal"   -> EncryptWriteSeal(f)
      [] f.pc = "ret"    -> EncryptReturn(f)
      [] OTHER           -> f

\* The frame of a call Encrypt(password, e) at its first line.
EncryptFrame(password, e) ==
    [NoFrame EXCEPT !.op = "Encrypt", !.pc = "gob", !.password = password, !.e = e]

\* What crypto/rand may do at rand.Read(salt) and at rand.Read(nonce): fill
\* the slice, or fail.
SaltDraws == { [ok |-> TRUE, bytes |-> s] : s \in Salts }
                \cup { [ok |-> FALSE, bytes |-> << >>] }
NonceDraws == { [ok |-> TRUE, bytes |-> n] : n \in Nonces }
                \cup { [ok |-> FALSE, bytes |-> << >>] }

\* What crypto/rand may do at the step the frame is at.
RandomDraws(f) ==
    CASE f.pc = "salt"  -> SaltDraws
      [] f.pc = "nonce" -> NonceDraws
      [] OTHER          -> { [ok |-> TRUE, bytes |-> << >>] }

\* A call of Encrypt run alone from the frame to its return, the random
\* source doing rs at rand.Read(salt) and rn at rand.Read(nonce).
RECURSIVE EncryptRun(_, _, _)
EncryptRun(f, rs, rn) ==
    IF f.pc = "done" THEN f
    ELSE EncryptRun(EncryptStep(f, IF f.pc = "salt" THEN rs ELSE rn), rs, rn)

(* ------------------------------- actions ------------------------------- *)

Idle(p) == fr[p].pc \in {"idle", "done"}
AllIdle == \A p \in Procs : Idle(p)

\* Where the bytes of blob come from, as the caller hands them to Decrypt.
Provenance ==
    [kind |-> IF enc.valid /\ tamper.kind = "none" /\ blob = enc.data THEN "enc"
              ELSE IF enc.valid /\ tamper.kind = "flip"
                      /\ blob = FlipBit(enc.data, tamper.bit) THEN "flip"
              ELSE "other",
     password |-> enc.password, f |-> enc.e.f, bit |-> tamper.bit]

\* The caller enters Encrypt(password, e).
CallEncrypt(p, max) ==
    /\ Idle(p)
    /\ ncalls < max
    /\ \E password \in Passwords, e \in Values :
          fr' = [fr EXCEPT ![p] = EncryptFrame(password, e)]
    /\ ncalls' = ncalls + 1
    /\ UNCHANGED << blob, out, enc, tamper >>

\* Encrypt runs its next step.
EncryptNext(p) ==
    /\ fr[p].op = "Encrypt"
    /\ ~Idle(p)
    /\ \E rnd \in RandomDraws(fr[p]) :
          fr' = [fr EXCEPT ![p] = EncryptStep(fr[p], rnd)]
    /\ UNCHANGED << blob, out, enc, tamper, ncalls >>

\* The caller enters Decrypt(blob, password, &out[p]).
CallDecrypt(p, max) ==
    /\ Idle(p)
    /\ ncalls < max
    /\ \E password \in Passwords :
          fr' = [fr EXCEPT ![p] = DecryptFrame(password, blob, out[p], Provenance)]
    /\ ncalls' = ncalls + 1
    /\ UNCHANGED << blob, out, enc, tamper >>

\* Decrypt runs its next step, on the caller's blob and on d.
DecryptNext(p) ==
    /\ fr[p].op = "Decrypt"
    /\ ~Idle(p)
    /\ LET s == DecryptStep(fr[p], blob, out[p])
       IN  /\ fr' = [fr EXCEPT ![p] = s.f]
           /\ blob' = s.mem
           /\ out' = [out EXCEPT ![p] = s.d]
    /\ UNCHANGED << enc, tamper, ncalls >>

\* The caller keeps the data a successful Encrypt returned as its blob.
Store(p) ==
    /\ AllIdle
    /\ fr[p].op = "Encrypt"
    /\ fr[p].pc = "done"
    /\ fr[p].err = "nil"
    /\ blob' = fr[p].data
    /\ enc' = [valid |-> TRUE, password |-> fr[p].password, e |-> fr[p].e,
               salt |-> fr[p].salt, nonce |-> fr[p].nonce, data |-> fr[p].data]
    /\ tamper' = NoTamper
    /\ fr' = [fr EXCEPT ![p] = NoFrame]
    /\ UNCHANGED << out, ncalls >>

\* The caller, between two calls, assigns the variable it will pass as d.
SetOut(p) ==
    /\ AllIdle
    /\ fr[p].op # "Encrypt"
    /\ \E f \in Fields \ {out[p]} : out' = [out EXCEPT ![p] = f]
    /\ fr' = [fr EXCEPT ![p] = NoFrame]
    /\ UNCHANGED << blob, enc, tamper, ncalls >>

\* The blob is as Encrypt returned it, and no call has been made since.
Untouched == enc.valid /\ tamper.kind = "none" /\ blob = enc.data
InTransit == \A p \in Procs : fr[p].op = "none"

\* The blob, as stored or sent, has one bit flipped.
Flip ==
    /\ InTransit
    /\ Untouched
    /\ \E k \in 0..(8 * Len(blob) - 1) :
          /\ blob' = FlipBit(blob, k)
          /\ tamper' = [kind |-> "flip", bit |-> k]
    /\ UNCHANGED << out, fr, enc, ncalls >>

\* One byte of the version field of the blob is overwritten.
SetVersion ==
    /\ InTransit
    /\ Untouched
    /\ \E i \in {1, 2, 8}, b \in {0, 1, 2} :
          /\ blob[i] # b
          /\ blob' = [blob EXCEPT ![i] = b]
    /\ tamper' = [kind |-> "version", bit |-> 0]
    /\ UNCHANGED << out, fr, enc, ncalls >>

\* The blob is cut to its first n bytes.
Truncate ==
    /\ InTransit
    /\ enc.valid
    /\ Untouched \/ (tamper.kind = "version" /\ Len(blob) = Len(enc.data))
    /\ \E n \in 0..(Len(blob) - 1) : blob' = Take(blob, n)
    /\ tamper' = [kind |-> "truncate", bit |-> 0]
    /\ UNCHANGED << out, fr, enc, ncalls >>

\* The payloads of blobs that another producer sealed under a password:
\* not a gzip stream; a gob message cut short; a gob message whose second
\* field number is out of range; a message followed by a corrupt deflate
\* block; a message with a wrong gzip checksum.
ForgedPayloads ==
    { << 1, 2, 3, 4 >>,
      GzipCompress(<< 5, 1, 1 >>),
      GzipCompress(<< 5, 1, 1, 3, 1, 0 >>),
      << 31, 139, 8, 0, 4, 3, 2, 1, 0, 7 >>,
      << 31, 139, 8 >> \o DeflateStored(<< 3, 2, 1, 0 >>) \o << 0, 0 >> }

\* A blob in the frame format with a given payload.
ForgedBlob(password, salt, nonce, payload) ==
    LittleEndianPutUint64(U64(Version)) \o salt \o nonce
        \o GcmSeal(NewGCM(AesNewCipher(derive(password, salt))), nonce, payload)

\* The caller receives a blob that Encrypt did not produce.
Forge ==
    /\ AllIdle
    /\ ncalls = 0
    /\ blob = << >>
    /\ \E password \in Passwords, payload \in ForgedPayloads :
          blob' = ForgedBlob(password, SaltOf(1), NonceOf(1), payload)
    /\ enc' = NoEnc
    /\ tamper' = [kind |-> "forged", bit |-> 0]
    /\ UNCHANGED << out, fr, ncalls >>

(* ---------------------------- specifications --------------------------- *)

Init ==
    /\ blob = << >>
    /\ out = [p \in Procs |-> ZeroValue]
    /\ fr = [p \in Procs |-> NoFrame]
    /\ enc = NoEnc
    /\ tamper = NoTamper
    /\ ncalls = 0

\* One caller: it encrypts, keeps the blob, decrypts (also blobs received
\* from elsewhere), one call after the other.
Next ==
    \/ CallEncrypt(1, MaxCalls)
    \/ EncryptNext(1)
    \/ Store(1)
    \/ CallDecrypt(1, MaxCalls)
    \/ DecryptNext(1)
    \/ SetOut(1)
    \/ Forge

Spec == Init /\ [][Next]_vars

\* A blob Encrypt returned, on its way to a caller of Decrypt, and a channel
\* that damages it: one change to the blob (a bit flipped, a byte of the
\* version overwritten, the end cut off), then Decrypt.
InitTamper ==
    /\ \E pw \in Passwords, f \in Fields, salt \in Salts :
          LET g == EncryptRun(EncryptFrame(pw, [enc |-> TRUE, f |-> f]),
                              [ok |-> TRUE, bytes |-> salt],
                              [ok |-> TRUE, bytes |-> NonceOf(1)])
          IN  /\ blob = g.data
              /\ enc = [valid |-> TRUE, password |-> pw, e |-> g.e,
                        salt |-> g.salt, nonce |-> g.nonce, data |-> g.data]
    /\ out = [p \in Procs |-> ZeroValue]
    /\ fr = [p \in Procs |-> NoFrame]
    /\ tamper = NoTamper
    /\ ncalls = 0

NextTamper ==
    \/ Flip
    \/ SetVersion
    \/ Truncate
    \/ CallDecrypt(1, MaxTamperCalls)
    \/ DecryptNext(1)

SpecTamper == InitTamper /\ [][NextTamper]_vars

\* Two goroutines calling at the same time; the blob is one Encrypt returned.
InitPar ==
    /\ \E pw \in Passwords, f \in Fields :
          LET g == EncryptRun(EncryptFrame(pw, [enc |-> TRUE, f |-> f]),
                              [ok |-> TRUE, bytes |-> SaltOf(1)],
                              [ok |-> TRUE, bytes |-> NonceOf(1)])
          IN  /\ blob = g.data
              /\ enc = [valid |-> TRUE, password |-> pw, e |-> g.e,
                        salt |-> g.salt, nonce |-> g.nonce, data |-> g.data]
    /\ out = [p \in Procs |-> ZeroValue]
    /\ fr = [p \in Procs |-> NoFrame]
    /\ tamper = NoTamper
    /\ ncalls = 0

NextPar ==
    \/ \E p \in Procs : CallDecrypt(p, MaxParCalls)
    \/ \E p \in Procs : DecryptNext(p)
    \/ CallEncrypt(1, MaxParCalls)
    \/ EncryptNext(1)

SpecPar == InitPar /\ [][NextPar]_vars

(* -------------------------------- claims ------------------------------- *)

DoneDecrypt(p) == fr[p].op = "Decrypt" /\ fr[p].pc = "done"
DoneEncrypt(p) == fr[p].op = "Encrypt" /\ fr[p].pc = "done"

FramingErrors == {"ErrNoVersion", "ErrVersionInvalid", "ErrNoSalt", "ErrNoNonce"}

\* The first eight bytes of b read as a little-endian integer are 1.
HasVersion1(b) == Len(b) >= 8 /\ b[1] = 1 /\ \A i \in 2..8 : b[i] = 0

\* C1, as claimed: Decrypt of the blob Encrypt(p, v) returned, under p, returns
\* no error and leaves the value d points to equal to v.
C1_RoundTripAnyDest ==
    \A p \in Procs :
        (DoneDecrypt(p) /\ fr[p].from.kind = "enc"
            /\ fr[p].password = fr[p].from.password)
        => (fr[p].err = "nil" /\ out[p] = fr[p].from.f)

\* C1, amended: the same, when d points to a zero value before the call.
C1_RoundTrip ==
    \A p \in Procs :
        (DoneDecrypt(p) /\ fr[p].from.kind = "enc"
            /\ fr[p].password = fr[p].from.password /\ fr[p].out0 = ZeroValue)
        => (fr[p].err = "nil" /\ out[p] = fr[p].from.f)

C1_Witness ==
    \E p \in Procs :
        /\ DoneDecrypt(p) /\ fr[p].from.kind = "enc"
        /\ fr[p].password = fr[p].from.password /\ fr[p].out0 = ZeroValue
        /\ fr[p].from.f # ZeroValue /\ out[p] = fr[p].from.f

\* C2: a Decrypt that returns an error leaves the value d points to as it was
\* before the call.
C2_FailClosed ==
    \A p \in Procs :
        (DoneDecrypt(p) /\ fr[p].err # "nil") => out[p] = fr[p].out0

\* C3: Decrypt, under the password of the Encrypt call, of its blob with one
\* bit of the salt, the nonce or the sealed payload flipped fails with the
\* authentication error.
C3_TamperDetected ==
    \A p \in Procs :
        (DoneDecrypt(p) /\ fr[p].from.kind = "flip" /\ fr[p].from.bit >= 64
            /\ fr[p].password = fr[p].from.password)
        => fr[p].err = "ErrOpen"

C3_Witness ==
    \E p \in Procs :
        /\ DoneDecrypt(p) /\ fr[p].from.kind = "flip"
        /\ fr[p].from.bit >= 8 * (8 + saltSize + NonceSize)
        /\ fr[p].password = fr[p].from.password
        /\ fr[p].err = "ErrOpen"

\* C4: Decrypt of the blob Encrypt(p, v) returned, under another password,
\* fails with the error of the AEAD open step, and neither the decompression
\* nor the deserialization step is run.
C4_WrongPassword ==
    \A p \in Procs :
        (DoneDecrypt(p) /\ fr[p].from.kind = "enc"
            /\ fr[p].password # fr[p].from.password)
        => /\ fr[p].err = "ErrOpen"
           /\ fr[p].ops # << >> /\ fr[p].ops[Len(fr[p].ops)] = "Open"
           /\ \A i \in 1..Len(fr[p].ops) :
                 fr[p].ops[i] \notin {"gzip.NewReader", "gob.Decode", "Close"}

C4_Witness ==
    \E p \in Procs :
        /\ DoneDecrypt(p) /\ fr[p].from.kind = "enc"
        /\ fr[p].password # fr[p].from.password
        /\ fr[p].err = "ErrOpen"

\* C5: Decrypt returns the missing-version error for a blob of 0..7 bytes, the
\* invalid-version error for a blob of 8 bytes or more whose version is not 1,
\* the missing-salt error for version 1 and 8..71 bytes, the missing-nonce
\* error for version 1 and 72..(72 + NonceSize - 1) bytes.
C5_Truncation ==
    \A p \in Procs :
        DoneDecrypt(p) =>
            LET b == fr[p].data0
            IN  /\ Len(b) < 8 => fr[p].err = "ErrNoVersion"
                /\ (Len(b) >= 8 /\ ~HasVersion1(b)) => fr[p].err = "ErrVersionInvalid"
                /\ (HasVersion1(b) /\ Len(b) <= 71) => fr[p].err = "ErrNoSalt"
                /\ (HasVersion1(b) /\ Len(b) >= 72 /\ Len(b) <= 72 + NonceSize - 1)
                       => fr[p].err = "ErrNoNonce"

C5_Witness ==
    \E p \in Procs :
        /\ DoneDecrypt(p)
        /\ HasVersion1(fr[p].data0)
        /\ Len(fr[p].data0) = 72 + NonceSize - 1
        /\ fr[p].err = "ErrNoNonce"

\* C6: the blob a successful Encrypt returns is the version 1 in 8 little-endian
\* bytes, the salt the key was derived from, the nonce the payload was sealed
\* with and the sealed compressed encoding of the value, in this order and
\* nothing else; and Decrypt, slicing that blob, reaches the open step with the
\* same salt (in its key), nonce and ciphertext.
C6_FrameLayout ==
    \A p \in Procs :
        /\ (DoneEncrypt(p) /\ fr[p].err = "nil") =>
              /\ Len(fr[p].salt) = saltSize
              /\ Len(fr[p].nonce) = NonceSize
              /\ fr[p].data =
                    << 1, 0, 0, 0, 0, 0, 0, 0 >> \o fr[p].salt \o fr[p].nonce
                    \o GcmSeal(NewGCM(AesNewCipher(derive(fr[p].password, fr[p].salt))),
                               fr[p].nonce, GzipCompress(GobEncode(fr[p].e).bytes))
        /\ (DoneDecrypt(p) /\ fr[p].from.kind = "enc") =>
              /\ fr[p].gcm.key = derive(fr[p].password, enc.salt)
              /\ SubSeq(fr[p].data0, fr[p].nonceOff + 1, fr[p].nonceOff + NonceSize)
                    = enc.nonce
              /\ Drop(fr[p].data0, fr[p].off) =
                    GcmSeal(NewGCM(AesNewCipher(derive(enc.password, enc.salt))),
                            enc.nonce, GzipCompress(GobEncode(enc.e).bytes))

C6_Witness ==
    \E p \in Procs :
        /\ DoneDecrypt(p) /\ fr[p].from.kind = "enc"
        /\ Len(fr[p].data0) > 8 + saltSize + NonceSize + TagSize
        /\ fr[p].data0 = enc.data

\* C7: a call that runs while other calls run returns what it returns when it
\* runs alone on the same arguments (and the same random draws).
C7_SameAsAlone ==
    \A p \in Procs :
        /\ DoneDecrypt(p) =>
              LET alone == DecryptRun([f |-> DecryptFrame(fr[p].password, fr[p].data0,
                                                          fr[p].out0, fr[p].from),
                                       mem |-> fr[p].data0, d |-> fr[p].out0])
              IN  fr[p].err = alone.f.err /\ out[p] = alone.d
        /\ (DoneEncrypt(p) /\ fr[p].err = "nil") =>
              LET alone == EncryptRun(EncryptFrame(fr[p].password, fr[p].e),
                                      [ok |-> TRUE, bytes |-> fr[p].salt],
                                      [ok |-> TRUE, bytes |-> fr[p].nonce])
              IN  fr[p].data = alone.data /\ fr[p].hash = alone.hash

\* C8: on success the hash is the 64-byte digest of exactly the bytes of the
\* blob and is not part of the blob; on failure blob and hash are empty.
C8_Checksum ==
    \A p \in Procs :
        DoneEncrypt(p) =>
            IF fr[p].err = "nil"
            THEN /\ fr[p].hash = Sha512Sum(fr[p].data)
                 /\ Len(fr[p].hash) = 64
                 /\ Len(fr[p].data) =
                       8 + saltSize + NonceSize + Len(fr[p].compressed) + TagSize
            ELSE fr[p].data = << >> /\ fr[p].hash = << >>

C8_Witness ==
    \E p \in Procs :
        /\ DoneEncrypt(p) /\ fr[p].err = "nil"
        /\ fr[p].data # << >> /\ fr[p].hash = Sha512Sum(fr[p].data)

\* C9: when Decrypt has returned, every byte of the caller's blob is what it
\* was before the call.
C9_InputUnchanged ==
    \A p \in Procs : DoneDecrypt(p) => blob = fr[p].data0

====
